---- MODULE Spec2Model ----
(***************************************************************************)
(* Model of src/app.py, the regression-curve chart generator: the two      *)
(* equation parsers, the two chart generators, the generate button         *)
(* handler with its retained session state, and the download rerun.        *)
(*                                                                         *)
(* Conventions.                                                            *)
(*  - A text cell is a sequence of one-character strings.  An empty field  *)
(*    is the empty sequence: pandas reads it as NaN (a float, not a str).  *)
(*  - A float that may be NaN, and a Python value that may be None, is a   *)
(*    sequence of length at most one: <<>> is NaN / None, <<v>> is v.      *)
(*  - Floats are held as integers in thousandths (1.5 is 1500).            *)
(*  - Styling, labels and y samples of a trace are not part of the model;  *)
(*    a trace keeps the curve it samples and the x array it samples on.    *)
(***************************************************************************)
EXTENDS Integers, Sequences, FiniteSets, TLC

VARIABLES
    data_input,           \* text area: the pasted table [header, rows]
    graph_type,           \* selectbox: "log" | "linear" | "both"
    show_extrapolation,   \* checkbox
    extrapolation_ratio,  \* slider, in tenths (10 is 1.0, 30 is 3.0)
    fig_uu,               \* st.session_state.fig_uu
    fig_ncpa,             \* st.session_state.fig_ncpa
    graph_generated,      \* st.session_state.graph_generated
    brand_count,          \* st.session_state.brand_count
    message,              \* what st.error showed in the last script run
    calls,                \* the chart generators entered in the last script run
    clicked,              \* st.button returned True in the last script run
    attempt,              \* number of generate clicks so far
    stored_by,            \* the attempt that assigned fig_uu, fig_ncpa (0: none)
    parse_call            \* a direct call of one parser: [fn, eq_str, result]

vars == <<data_input, graph_type, show_extrapolation, extrapolation_ratio,
          fig_uu, fig_ncpa, graph_generated, brand_count, message, calls,
          clicked, attempt, stored_by, parse_call>>

widgets == <<data_input, graph_type, show_extrapolation, extrapolation_ratio>>
session_state == <<fig_uu, fig_ncpa, graph_generated, brand_count>>

-----------------------------------------------------------------------------
(* Bounds of the model.                                                    *)

MaxRows == 2        \* data rows in a pasted table
MaxAttempts == 2    \* generate clicks in one session

-----------------------------------------------------------------------------
(* Floats.                                                                 *)

NaN == <<>>
None == <<>>

IsNum(x) == x # <<>>

\* The element of a one-element set.  Value({F(v) : v \in {e}}) is F(e)
\* with e computed once and named v.
Value(S) == CHOOSE v \in S : TRUE

\* Python's a < b, a > b on floats: every comparison with NaN is False.
Lt(x, y) == IsNum(x) /\ IsNum(y) /\ x[1] < y[1]
Gt(x, y) == Lt(y, x)

\* Python's builtin max(x, y): y replaces x only when y > x.
PyMax(x, y) == IF Gt(y, x) THEN y ELSE x

-----------------------------------------------------------------------------
(* Regular expressions of the two parsers.                                 *)

Digits == {"0", "1", "2", "3", "4", "5", "6", "7", "8", "9"}
NumChars == Digits \cup {"-", "."}     \* [-\d.]
WhiteSpace == {" "}                    \* \s within a tab-separated field

LnX == <<"l", "n", "(", "x", ")">>     \* ln\(x\)
X == <<"x">>                           \* x

RECURSIVE SkipWs(_, _)
\* \s* from position i: the first position that is not white space.
SkipWs(s, i) ==
    IF i <= Len(s) /\ s[i] \in WhiteSpace THEN SkipWs(s, i + 1) ELSE i

RECURSIVE RunEnd(_, _)
\* [-\d.]* from position i, greedy: the first position not in the class.
RunEnd(s, i) ==
    IF i <= Len(s) /\ s[i] \in NumChars THEN RunEnd(s, i + 1) ELSE i

\* The literal lit at position i of s.
Lit(s, i, lit) ==
    /\ i >= 1
    /\ i + Len(lit) - 1 <= Len(s)
    /\ SubSeq(s, i, i + Len(lit) - 1) = lit

\* y\s*=\s*([-\d.]+)\s*\*\s*<term>\s*\+\s*([-\d.]+) anchored at position p:
\* the two groups, or <<>> when the pattern does not match there.  What
\* follows a group is never in the group's class, so the greedy run is the
\* only candidate for it.
MatchAt(s, p, term) ==
    LET i1 == SkipWs(s, p + 1)
        i2 == SkipWs(s, i1 + 1)
        i3 == RunEnd(s, i2)
        i4 == SkipWs(s, i3)
        i5 == SkipWs(s, i4 + 1)
        i6 == SkipWs(s, i5 + Len(term))
        i7 == SkipWs(s, i6 + 1)
        i8 == RunEnd(s, i7)
    IN  IF /\ Lit(s, p, <<"y">>)
           /\ Lit(s, i1, <<"=">>)
           /\ i3 > i2
           /\ Lit(s, i4, <<"*">>)
           /\ Lit(s, i5, term)
           /\ Lit(s, i6, <<"+">>)
           /\ i8 > i7
        THEN <<SubSeq(s, i2, i3 - 1), SubSeq(s, i7, i8 - 1)>>
        ELSE <<>>

\* re.search: the match at the leftmost position that has one, or <<>>
\* (None).
ReSearch(s, term) ==
    LET starts == {p \in 1..Len(s) : MatchAt(s, p, term) # <<>>}
    IN  IF starts = {} THEN <<>>
        ELSE MatchAt(s, CHOOSE p \in starts : \A q \in starts : p <= q, term)

-----------------------------------------------------------------------------
(* float() on a token made of digits, '-' and '.'.                         *)

Unsigned(tok) == IF tok # <<>> /\ tok[1] = "-" THEN Tail(tok) ELSE tok

\* float(tok) succeeds: one optional sign, at most one point, a digit.
IsFloatLiteral(tok) ==
    LET body == Unsigned(tok)
    IN  /\ \A i \in 1..Len(body) : body[i] \in Digits \cup {"."}
        /\ Cardinality({i \in 1..Len(body) : body[i] = "."}) <= 1
        /\ \E i \in 1..Len(body) : body[i] \in Digits

DigitVal(c) ==
    CASE c = "0" -> 0 [] c = "1" -> 1 [] c = "2" -> 2 [] c = "3" -> 3
      [] c = "4" -> 4 [] c = "5" -> 5 [] c = "6" -> 6 [] c = "7" -> 7
      [] c = "8" -> 8 [] c = "9" -> 9

RECURSIVE Pow10(_)
Pow10(n) == IF n <= 0 THEN 1 ELSE 10 * Pow10(n - 1)

RECURSIVE Mantissa(_, _)
\* The digits of body read as one integer, the point dropped.
Mantissa(body, acc) ==
    IF body = <<>> THEN acc
    ELSE IF Head(body) = "." THEN Mantissa(Tail(body), acc)
    ELSE Mantissa(Tail(body), 10 * acc + DigitVal(Head(body)))

\* Digits after the point.
Decimals(body) ==
    IF \E i \in 1..Len(body) : body[i] = "."
    THEN Len(body) - (CHOOSE i \in 1..Len(body) : body[i] = ".")
    ELSE 0

\* The value of float(tok), in thousandths.
FloatValue(tok) ==
    LET body == Unsigned(tok)
        d == Decimals(body)
        m == Mantissa(body, 0)
        mag == IF d <= 3 THEN m * Pow10(3 - d) ELSE m \div Pow10(d - 3)
    IN  IF tok[1] = "-" THEN 0 - mag ELSE mag

-----------------------------------------------------------------------------
(* parse_log_equation, parse_linear_equation.                              *)
(* The outcome of a call: raised is "" or the exception's type; a and b    *)
(* are the returned pair, both None when the function returns None, None.  *)

Returned(a, b) == [raised |-> "", a |-> a, b |-> b]
Raised(exc) == [raised |-> exc, a |-> None, b |-> None]

\* if match: return float(match.group(1)), float(match.group(2))
\* return None, None
\* float() on a group that is no float literal raises ValueError.
ParseMatch(match) ==
    IF match # <<>>
    THEN IF IsFloatLiteral(match[1]) /\ IsFloatLiteral(match[2])
         THEN Returned(<<FloatValue(match[1])>>, <<FloatValue(match[2])>>)
         ELSE Raised("ValueError")
    ELSE Returned(None, None)

\* re.search on a cell that is NaN (a float) raises TypeError.
ParseEquation(eq_str, term) ==
    IF eq_str = <<>> THEN Raised("TypeError")
    ELSE Value({ParseMatch(match) : match \in {ReSearch(eq_str, term)}})

parse_log_equation(eq_str) == ParseEquation(eq_str, LnX)

parse_linear_equation(eq_str) == ParseEquation(eq_str, X)

-----------------------------------------------------------------------------
(* The table (pandas DataFrame).                                           *)
(* Column names, in the order of the sample sheet:                         *)
(*   name    出品者カテゴリー                                                *)
(*   log_eq  広告費と広告新規UUの対数回帰式     log_r2  決定係数(対数)          *)
(*   min_x   データ範囲 min x                  max_x   データ範囲 max x       *)
(*   lin_eq  広告費と広告新規UUの線形回帰式     lin_r2  決定係数(線形)          *)
(* A table is [header, rows]: the set of column names of its first line    *)
(* and its data rows; a row carries one cell per column that the claims    *)
(* read, and the cell of a column missing from the header is never read.   *)

required_cols == <<"name", "min_x", "max_x">>

AllCols == {"name", "log_eq", "log_r2", "min_x", "max_x", "lin_eq", "lin_r2"}

\* pd.to_numeric(errors='coerce') on one cell of digits, '-', '.' and
\* letters: its number, else NaN.
ToNumeric(cell) ==
    IF IsFloatLiteral(cell) THEN <<FloatValue(cell)>> ELSE NaN

\* The handler's numeric conversion of the two range columns.
CoerceRanges(table) ==
    [header |-> table.header,
     rows |-> [i \in 1..Len(table.rows) |->
                 [table.rows[i] EXCEPT !.min_x = ToNumeric(@),
                                       !.max_x = ToNumeric(@)]]]

Numbers(df, col) ==
    {df.rows[i][col][1] : i \in {j \in 1..Len(df.rows) : IsNum(df.rows[j][col])}}

\* Series.min() and Series.max(): NaN cells are skipped; NaN when none is left.
SeriesMin(df, col) ==
    LET vals == Numbers(df, col)
    IN  IF vals = {} THEN NaN ELSE <<CHOOSE v \in vals : \A w \in vals : v <= w>>

SeriesMax(df, col) ==
    LET vals == Numbers(df, col)
    IN  IF vals = {} THEN NaN ELSE <<CHOOSE v \in vals : \A w \in vals : v >= w>>

\* AllXMax with the ratio taken for the fraction to add: max * (1 + ratio).
AllXMaxAdded(df, extrap_ratio) ==
    LET m == SeriesMax(df, "max_x")
    IN  IF IsNum(m) THEN <<(m[1] * (10 + extrap_ratio)) \div 10>> ELSE NaN

\* df['データ範囲 max x'].max() * extrap_ratio, the ratio in tenths.
AllXMax(df, extrap_ratio) ==
    LET m == SeriesMax(df, "max_x")
    IN  IF IsNum(m) THEN <<(m[1] * extrap_ratio) \div 10>> ELSE NaN

AllXMin(df) == SeriesMin(df, "min_x")

-----------------------------------------------------------------------------
(* Traces.                                                                 *)

ObservedSamples == 300
ExtrapolatedSamples == 100

\* One go.Scatter added to a figure: the row and model it belongs to, its
\* region, the coefficients of the curve and the arguments of the
\* np.linspace call that makes its x array.
Trace(i, model, region, coef, start, stop, num) ==
    [row |-> i, model |-> model, region |-> region,
     a |-> coef.a[1], b |-> coef.b[1],
     x |-> [start |-> start, stop |-> stop, num |-> num]]

\* np.linspace(start, stop, num) with every sample multiplied by num - 1:
\* sample k is start + k * (stop - start) / (num - 1), NaN when an end is
\* NaN, and the last sample is then overwritten with stop.
Linspace(x) ==
    [k \in 1..x.num |->
        IF k = x.num
        THEN IF IsNum(x.stop) THEN <<x.stop[1] * (x.num - 1)>> ELSE NaN
        ELSE IF IsNum(x.start) /\ IsNum(x.stop)
             THEN <<x.start[1] * (x.num - 1) + (k - 1) * (x.stop[1] - x.start[1])>>
             ELSE NaN]

\* Outcome of a chart generator or of a part of it.
Ok(traces) == [raised |-> "", traces |-> traces]
Fail(exc) == [raised |-> exc, traces |-> <<>>]

-----------------------------------------------------------------------------
(* generate_graph.                                                         *)

\* The traces of one fitted curve on the acquisition chart: the observed
\* range, then the two extrapolated ranges.
CurveTraces(i, model, coef, x_min, x_max, all_x_min, all_x_max, show) ==
    <<Trace(i, model, "Observed", coef, x_min, x_max, ObservedSamples)>>
    \o (IF show /\ Lt(all_x_min, x_min)
        THEN <<Trace(i, model, "ExtrapolatedLow", coef, all_x_min, x_min,
                     ExtrapolatedSamples)>>
        ELSE <<>>)
    \o (IF show /\ Gt(all_x_max, x_max)
        THEN <<Trace(i, model, "ExtrapolatedHigh", coef, x_max, all_x_max,
                     ExtrapolatedSamples)>>
        ELSE <<>>)

EqCol(model) == IF model = "log" THEN "log_eq" ELSE "lin_eq"
R2Col(model) == IF model = "log" THEN "log_r2" ELSE "lin_r2"

\* row[<equation column>] handed to the model's parser; row[...] raises
\* KeyError when the table has no such column.
ParseCell(df, i, model) ==
    IF EqCol(model) \notin df.header THEN Raised("KeyError")
    ELSE IF model = "log" THEN parse_log_equation(df.rows[i].log_eq)
    ELSE parse_linear_equation(df.rows[i].lin_eq)

\* One model of one row, its equation parsed to coef: the R2 lookup and,
\* when the parse gave coefficients, the traces.
GraphModelTraces(df, i, model, coef, all_x_min, all_x_max, show) ==
    IF coef.raised # "" THEN Fail(coef.raised)
    ELSE IF R2Col(model) \notin df.header THEN Fail("KeyError")
    ELSE IF coef.a # None
         THEN Ok(CurveTraces(i, model, coef, df.rows[i].min_x,
                             df.rows[i].max_x, all_x_min, all_x_max, show))
         ELSE Ok(<<>>)

Selected(graph_type_, model) == graph_type_ \in {model, "both"}

\* One model of one row, when the selection includes it.
GraphModelPart(df, i, model, graph_type_, all_x_min, all_x_max, show) ==
    IF Selected(graph_type_, model)
    THEN Value({GraphModelTraces(df, i, model, coef, all_x_min, all_x_max, show) :
                   coef \in {ParseCell(df, i, model)}})
    ELSE Ok(<<>>)

\* A row's log part followed by its linear part; an exception in the log
\* part leaves the linear part unexecuted.
RowOutcome(log, lin) ==
    IF log.raised # "" THEN log
    ELSE IF lin.raised # "" THEN lin
    ELSE Ok(log.traces \o lin.traces)

\* The body of the loop over the rows, for row i.
GraphRow(df, i, graph_type_, all_x_min, all_x_max, show) ==
    Value({RowOutcome(log, lin) :
              log \in {GraphModelPart(df, i, "log", graph_type_, all_x_min,
                                      all_x_max, show)},
              lin \in {GraphModelPart(df, i, "linear", graph_type_, all_x_min,
                                      all_x_max, show)}})

RECURSIVE LoopOutcome(_, _)
\* The loop over the rows, given each row's outcome: the traces of the
\* rows in order, or the first exception.
LoopOutcome(rows, acc) ==
    IF rows = <<>> THEN Ok(acc)
    ELSE IF Head(rows).raised # "" THEN Head(rows)
    ELSE LoopOutcome(Tail(rows), acc \o Head(rows).traces)

GraphLoop(df, graph_type_, all_x_min, all_x_max, show) ==
    Value({LoopOutcome(rows, <<>>) :
              rows \in {[i \in 1..Len(df.rows) |->
                           GraphRow(df, i, graph_type_, all_x_min, all_x_max,
                                    show)]}})

generate_graph(df, graph_type_, show, extrap_ratio) ==
    Value({GraphLoop(df, graph_type_, all_x_min, all_x_max, show) :
              all_x_min \in {AllXMin(df)},
              all_x_max \in {AllXMax(df, extrap_ratio)}})

-----------------------------------------------------------------------------
(* find_ncpa_minimum_log and generate_ncpa_graph.                          *)

\* np.exp of an argument in thousandths, in thousandths, on the arguments
\* the model's equations produce; below -745 the result underflows to 0.
NpExp(t) ==
    CASE t <= -745000 -> 0
      [] t = -1000 -> 368
      [] t = 0 -> 1000
      [] t = 1000 -> 2718
      [] t = 2000 -> 7389
      [] t = 3000 -> 20086

\* np.log on the values NpExp returns (np.log(0) is -inf: see the caller).
NpLog(x) ==
    CASE x = 368 -> -1000
      [] x = 1000 -> 0
      [] x = 2718 -> 1000
      [] x = 7389 -> 2000
      [] x = 20086 -> 3000

\* a and b in thousandths.  With x_min = 0 (underflow), a * log(x_min) + b
\* is -inf, which is not > 0.
find_ncpa_minimum_log(a, b) ==
    IF a <= 0 THEN None
    ELSE LET x_min == NpExp(1000 - (1000 * b) \div a)
         IN  IF x_min # 0 /\ (a * NpLog(x_min)) \div 1000 + b > 0
             THEN <<x_min>>
             ELSE None

\* XStart without the restriction to the increasing branch.
XStartUnrestricted(x_ncpa_min, x_min) == x_min

\* The display start of the log model (lines 305-311).
XStart(x_ncpa_min, x_min) ==
    IF x_ncpa_min # None THEN PyMax(x_ncpa_min, x_min) ELSE x_min

\* The log model of one row on the cost chart from its display start
\* (lines 314-345).
NcpaLogTracesFrom(i, coef, x_start, x_max, all_x_max, show) ==
    IF Lt(x_start, x_max)
    THEN <<Trace(i, "log", "Observed", coef, x_start, x_max, ObservedSamples)>>
         \o (IF show /\ Gt(all_x_max, x_max)
             THEN <<Trace(i, "log", "ExtrapolatedHigh", coef, x_max,
                          all_x_max, ExtrapolatedSamples)>>
             ELSE <<>>)
    ELSE <<>>

\* The log model of one row on the cost chart (lines 303-345).
NcpaLogTraces(i, coef, x_min, x_max, all_x_max, show) ==
    Value({NcpaLogTracesFrom(i, coef, XStart(x_ncpa_min, x_min), x_max,
                             all_x_max, show) :
              x_ncpa_min \in {find_ncpa_minimum_log(coef.a[1], coef.b[1])}})

\* The linear model of one row on the cost chart (lines 354-386).
NcpaLinearTraces(i, coef, x_min, x_max, all_x_max, show) ==
    <<Trace(i, "linear", "Observed", coef, x_min, x_max, ObservedSamples)>>
    \o (IF show /\ Gt(all_x_max, x_max)
        THEN <<Trace(i, "linear", "ExtrapolatedHigh", coef, x_max, all_x_max,
                     ExtrapolatedSamples)>>
        ELSE <<>>)

\* One model of one row, its equation parsed to coef.
NcpaModelTraces(df, i, model, coef, all_x_max, show) ==
    IF coef.raised # "" THEN Fail(coef.raised)
    ELSE IF R2Col(model) \notin df.header THEN Fail("KeyError")
    ELSE IF coef.a # None
         THEN IF model = "log"
              THEN Ok(NcpaLogTraces(i, coef, df.rows[i].min_x,
                                    df.rows[i].max_x, all_x_max, show))
              ELSE Ok(NcpaLinearTraces(i, coef, df.rows[i].min_x,
                                       df.rows[i].max_x, all_x_max, show))
         ELSE Ok(<<>>)

NcpaModelPart(df, i, model, graph_type_, all_x_max, show) ==
    IF Selected(graph_type_, model)
    THEN Value({NcpaModelTraces(df, i, model, coef, all_x_max, show) :
                   coef \in {ParseCell(df, i, model)}})
    ELSE Ok(<<>>)

NcpaRow(df, i, graph_type_, all_x_max, show) ==
    Value({RowOutcome(log, lin) :
              log \in {NcpaModelPart(df, i, "log", graph_type_, all_x_max, show)},
              lin \in {NcpaModelPart(df, i, "linear", graph_type_, all_x_max,
                                     show)}})

NcpaLoop(df, graph_type_, all_x_max, show) ==
    Value({LoopOutcome(rows, <<>>) :
              rows \in {[i \in 1..Len(df.rows) |->
                           NcpaRow(df, i, graph_type_, all_x_max, show)]}})

\* generate_ncpa_graph with the log part run whatever the selection.
generate_ncpa_graph_log_always(df, graph_type_, show, extrap_ratio) ==
    Value({NcpaLoop(df, IF graph_type_ = "linear" THEN "both" ELSE graph_type_,
                    all_x_max, show) :
              all_x_max \in {AllXMax(df, extrap_ratio)}})

generate_ncpa_graph(df, graph_type_, show, extrap_ratio) ==
    Value({NcpaLoop(df, graph_type_, all_x_max, show) :
              all_x_max \in {AllXMax(df, extrap_ratio)}})

-----------------------------------------------------------------------------
(* The generate button handler (lines 423-449).                            *)

\* MissingCols reporting every required column once one is missing.
MissingColsAll(header) ==
    IF \A k \in 1..Len(required_cols) : required_cols[k] \in header
    THEN <<>> ELSE required_cols

\* [col for col in required_cols if col not in df.columns]
MissingCols(header) ==
    LET Missing(col) == col \notin header
    IN  SelectSeq(required_cols, Missing)

Figure(metric, traces) == [metric |-> metric, traces |-> traces]

\* What one run of the handler does: the figures it assigns (None: the
\* assignment is not reached), whether lines 444-445 are reached, the
\* st.error message and the generators entered.
Outcome(uu, ncpa, completed, msg, called) ==
    [fig_uu |-> uu, fig_ncpa |-> ncpa, completed |-> completed,
     message |-> msg, calls |-> called]

ErrorMissing(cols) == <<[kind |-> "missing_cols", detail |-> cols]>>
ErrorException(exc) == <<[kind |-> "exception", detail |-> <<exc>>]>>

\* Lines 436-439: the conversions of the four numeric columns; df[col]
\* raises KeyError when the header has no such column.
NumericConversionRaises(header) ==
    "log_r2" \notin header \/ "lin_r2" \notin header

\* Lines 442-445, given what the two generators do on the converted
\* table: fig_uu is assigned before generate_ncpa_graph is entered.
StoreCharts(uu, ncpa) ==
    IF uu.raised # ""
    THEN Outcome(None, None, FALSE, ErrorException(uu.raised),
                 <<"generate_graph">>)
    ELSE IF ncpa.raised # ""
    THEN Outcome(<<Figure("uu", uu.traces)>>, None, FALSE,
                 ErrorException(ncpa.raised),
                 <<"generate_graph", "generate_ncpa_graph">>)
    ELSE Outcome(<<Figure("uu", uu.traces)>>, <<Figure("ncpa", ncpa.traces)>>,
                 TRUE, <<>>, <<"generate_graph", "generate_ncpa_graph">>)

\* Lines 441-445 on the converted table df.
GenerateCharts(df, inp) ==
    Value({StoreCharts(uu, ncpa) :
              uu \in {generate_graph(df, inp.graph_type,
                                     inp.show_extrapolation,
                                     inp.extrapolation_ratio)},
              ncpa \in {generate_ncpa_graph(df, inp.graph_type,
                                            inp.show_extrapolation,
                                            inp.extrapolation_ratio)}})

\* The try block (lines 424-449).
HandlerOutcome(inp) ==
    IF MissingCols(inp.data_input.header) # <<>>
    THEN Outcome(None, None, FALSE,
                 ErrorMissing(MissingCols(inp.data_input.header)), <<>>)
    ELSE IF NumericConversionRaises(inp.data_input.header)
    THEN Outcome(None, None, FALSE, ErrorException("KeyError"), <<>>)
    ELSE Value({GenerateCharts(df, inp) :
                   df \in {CoerceRanges(inp.data_input)}})

\* The user sets the widgets to inp and clicks the generate button.
GenerateClicked(inp) ==
    \E out \in {HandlerOutcome(inp)} :
        /\ data_input' = inp.data_input
        /\ graph_type' = inp.graph_type
        /\ show_extrapolation' = inp.show_extrapolation
        /\ extrapolation_ratio' = inp.extrapolation_ratio
        /\ clicked' = TRUE
        /\ attempt' = attempt + 1
        /\ fig_uu' = IF out.fig_uu # None THEN out.fig_uu ELSE fig_uu
        /\ fig_ncpa' = IF out.fig_ncpa # None THEN out.fig_ncpa ELSE fig_ncpa
        /\ graph_generated' = (out.completed \/ graph_generated)
        /\ brand_count' = IF out.completed THEN Len(inp.data_input.rows)
                          ELSE brand_count
        /\ stored_by' = [uu |-> IF out.fig_uu # None THEN attempt + 1
                                ELSE stored_by.uu,
                         ncpa |-> IF out.fig_ncpa # None THEN attempt + 1
                                  ELSE stored_by.ncpa]
        /\ message' = out.message
        /\ calls' = out.calls
        /\ UNCHANGED parse_call

\* Either download button (lines 451-488): the buttons exist only when a
\* chart is retained, and a click reruns the script with the generate
\* button not pressed.
Download ==
    /\ graph_generated
    /\ fig_uu # None
    /\ clicked' = FALSE
    /\ message' = <<>>
    /\ calls' = <<>>
    /\ UNCHANGED <<widgets, session_state, attempt, stored_by, parse_call>>

-----------------------------------------------------------------------------
(* Inputs.                                                                 *)

LogText(a, b) ==
    <<"y", " ", "=", " ">> \o a \o <<" ", "*", " ">> \o LnX
    \o <<" ", "+", " ">> \o b

LinearText(a, b) ==
    <<"y", " ", "=", " ">> \o a \o <<" ", "*", " ">> \o X
    \o <<" ", "+", " ">> \o b

\* A text cell that is no equation, no number and none of the markers
\* read_csv turns into NaN.
FreeText == <<"t", "b", "d">>

Row(log_eq, lin_eq, min_x, max_x) ==
    [log_eq |-> log_eq, lin_eq |-> lin_eq, min_x |-> min_x, max_x |-> max_x]

Lin21 == LinearText(<<"2">>, <<"1">>)

\* Rows of a pasted table: well-formed ones with the cost minimum inside,
\* below and above the observed range, and ones with an empty or
\* non-matching equation, a malformed coefficient, an empty or non-numeric
\* range cell, a non-positive minimum, and a maximum below the minimum.
RowSet ==
    { Row(LogText(<<"1">>, <<"0">>), Lin21, <<"1">>, <<"5">>),
      Row(LogText(<<"1">>, <<"-", "1">>), LinearText(<<"1">>, <<"0">>),
          <<"3">>, <<"9">>),
      Row(LogText(<<"1">>, <<"0">>), Lin21, <<"3">>, <<"5">>),
      Row(LogText(<<"1">>, <<"-", "1">>), Lin21, <<"1">>, <<"5">>),
      Row(LogText(<<"-", "1">>, <<"2">>), Lin21, <<"1">>, <<"5">>),
      Row(LogText(<<"1">>, <<"8", "0", "0">>), FreeText, <<"1">>, <<"5">>),
      Row(<<>>, Lin21, <<"1">>, <<"5">>),
      Row(FreeText, Lin21, <<"1">>, <<"5">>),
      Row(LogText(<<"1", ".", "2", ".", "3">>, <<"0">>), Lin21, <<"1">>, <<"5">>),
      Row(LogText(<<"1">>, <<"0">>), Lin21, <<>>, <<"5">>),
      Row(LogText(<<"1">>, <<"0">>), Lin21, <<"1">>, FreeText),
      Row(LogText(<<"1">>, <<"0">>), Lin21, <<"0">>, <<"5">>),
      Row(LogText(<<"-", "1">>, <<"2">>), Lin21, <<"5">>, <<"2">>) }

Tables(header, rowset, n) ==
    {[header |-> header, rows |-> rows] :
        rows \in UNION {[1..k -> rowset] : k \in 0..n}}

GraphTypes == {"log", "linear", "both"}

\* Slider positions: the least and the default.
Ratios == {10, 15}

Input(table, gt, show, ratio) ==
    [data_input |-> table, graph_type |-> gt, show_extrapolation |-> show,
     extrapolation_ratio |-> ratio]

\* Inputs of the chart generators: every table of at most MaxRows rows
\* under the full header, every selection and setting.
ChartInputs ==
    {Input(t, gt, show, ratio) :
        t \in Tables(AllCols, RowSet, MaxRows), gt \in GraphTypes,
        show \in BOOLEAN, ratio \in Ratios}

\* Headers of a pasted table: any required columns missing, or any
\* optional columns missing.
Headers ==
    {AllCols \ m : m \in SUBSET {"name", "min_x", "max_x"}}
    \cup {AllCols \ m : m \in SUBSET {"log_eq", "log_r2", "lin_eq", "lin_r2"}}

SessionRows ==
    { Row(LogText(<<"1">>, <<"0">>), Lin21, <<"1">>, <<"5">>),
      Row(<<>>, Lin21, <<"1">>, <<"5">>) }

\* Inputs of a session: one-row tables under every header.
SessionInputs ==
    {Input(t, gt, TRUE, 15) :
        t \in UNION {Tables(h, SessionRows, 1) : h \in Headers},
        gt \in GraphTypes}

\* Equation cells handed to a parser directly.
Tokens ==
    { <<"2">>, <<"-", "1">>, <<"1", ".", "5">>, <<"-", ".", "5">>,
      <<"1", ".", "2", ".", "3">>, <<"-", "-", "5">>, <<".">>, <<"-">> }

EquationCells ==
    {<<>>, FreeText}
    \cup {LogText(a, b) : a \in Tokens, b \in Tokens}
    \cup {LinearText(a, b) : a \in Tokens, b \in Tokens}
    \cup {<<"y", "=">> \o a \o <<"*">> \o LnX \o <<"+">> \o b :
            a \in Tokens, b \in Tokens}
    \cup {<<"y", " ", "=", " ">> \o a \o <<" ", "*", " ">> \o LnX
          \o <<" ", "-", " ">> \o b : a \in Tokens, b \in Tokens}

-----------------------------------------------------------------------------
(* Specifications.                                                         *)

NoCall == [fn |-> "none", eq_str |-> <<>>, result |-> Returned(None, None)]

\* Lines 28-36 and the widgets' defaults.
InitSession ==
    /\ data_input = [header |-> AllCols, rows |-> <<>>]
    /\ graph_type = "log"
    /\ show_extrapolation = TRUE
    /\ extrapolation_ratio = 15
    /\ fig_uu = None
    /\ fig_ncpa = None
    /\ graph_generated = FALSE
    /\ brand_count = 0
    /\ message = <<>>
    /\ calls = <<>>
    /\ clicked = FALSE
    /\ attempt = 0
    /\ stored_by = [uu |-> 0, ncpa |-> 0]

Init == InitSession /\ parse_call = NoCall

Generate ==
    /\ attempt < MaxAttempts
    /\ \E inp \in SessionInputs : GenerateClicked(inp)

Next == Generate \/ Download

\* A session: generate clicks and downloads in any order.
Spec == Init /\ [][Next]_vars

GenerateOnce ==
    /\ attempt = 0
    /\ \E inp \in ChartInputs : GenerateClicked(inp)

NextCharts == GenerateOnce

\* One generate click on a fresh session, over the chart generators' inputs.
SpecCharts == Init /\ [][NextCharts]_vars

InitParse ==
    /\ InitSession
    /\ \E cell \in EquationCells :
          parse_call = [fn |-> "pending", eq_str |-> cell,
                        result |-> Returned(None, None)]

CallParseLog ==
    /\ parse_call.fn = "pending"
    /\ parse_call' = [fn |-> "parse_log_equation", eq_str |-> parse_call.eq_str,
                      result |-> parse_log_equation(parse_call.eq_str)]
    /\ UNCHANGED <<widgets, session_state, message, calls, clicked, attempt,
                   stored_by>>

CallParseLinear ==
    /\ parse_call.fn = "pending"
    /\ parse_call' = [fn |-> "parse_linear_equation",
                      eq_str |-> parse_call.eq_str,
                      result |-> parse_linear_equation(parse_call.eq_str)]
    /\ UNCHANGED <<widgets, session_state, message, calls, clicked, attempt,
                   stored_by>>

NextParse == CallParseLog \/ CallParseLinear

\* One call of one parser on one equation cell.
SpecParse == InitParse /\ [][NextParse]_vars

-----------------------------------------------------------------------------
(* Reading the state: the table of the last click and the retained charts. *)

RowIds == 1..Len(data_input.rows)
XMin(i) == ToNumeric(data_input.rows[i].min_x)
XMax(i) == ToNumeric(data_input.rows[i].max_x)
LogCell(i) == data_input.rows[i].log_eq
LinCell(i) == data_input.rows[i].lin_eq

TracesOf(fig) ==
    IF fig = None THEN {}
    ELSE {fig[1].traces[k] : k \in 1..Len(fig[1].traces)}

ChartTraces == TracesOf(fig_uu) \cup TracesOf(fig_ncpa)

RequiredSet == {"name", "min_x", "max_x"}

\* The last script run was a generate click that ended without st.error.
Succeeded == clicked /\ message = <<>>

\* No equation cell of the table makes a parser raise.
NoParserRaises ==
    \A i \in RowIds :
        /\ parse_log_equation(LogCell(i)).raised = ""
        /\ parse_linear_equation(LinCell(i)).raised = ""

\* Every equation cell of the table is a string.
NoEmptyEquation ==
    \A i \in RowIds : LogCell(i) # <<>> /\ LinCell(i) # <<>>

\* Every range cell of the table is a number.
RangesNumeric ==
    \A i \in RowIds : IsNum(XMin(i)) /\ IsNum(XMax(i))

-----------------------------------------------------------------------------
(* Claims.                                                                 *)

\* C1 (as stated; refuted): with the linear model selected, a row whose log
\* equation cell is empty or does not match the log pattern, and whose
\* linear equation and range are valid, has its linear Observed series on
\* both charts and the attempt does not fail.  Stated for tables in which
\* no coefficient token is malformed, so that only the log miss is at play.
C1_LinearSurvivesLogMiss ==
    (/\ clicked
     /\ graph_type \in {"linear", "both"}
     /\ data_input.header = AllCols
     /\ \A j \in RowIds :
           /\ LogCell(j) = <<>> \/ parse_log_equation(LogCell(j)).raised = ""
           /\ parse_linear_equation(LinCell(j)).raised = "")
    => \A i \in RowIds :
          (/\ LogCell(i) = <<>> \/ ReSearch(LogCell(i), LnX) = <<>>
           /\ parse_linear_equation(LinCell(i)).a # None
           /\ IsNum(XMin(i)) /\ IsNum(XMax(i)))
          => /\ message = <<>>
             /\ \E t \in TracesOf(fig_uu) :
                   t.row = i /\ t.model = "linear" /\ t.region = "Observed"
             /\ \E t \in TracesOf(fig_ncpa) :
                   t.row = i /\ t.model = "linear" /\ t.region = "Observed"

C3_MissingColumnsReported ==
    (clicked /\ RequiredSet \ data_input.header # {})
    => /\ Len(message) = 1
       /\ message[1].kind = "missing_cols"
       /\ {message[1].detail[k] : k \in 1..Len(message[1].detail)}
             = RequiredSet \ data_input.header
       /\ Len(message[1].detail) = Cardinality(RequiredSet \ data_input.header)
       /\ calls = <<>>
       /\ stored_by.uu # attempt
       /\ stored_by.ncpa # attempt

\* C3 witness: a click on a table lacking two required columns, with the
\* charts of an earlier click retained.
C3_Witness ==
    /\ clicked
    /\ "name" \notin data_input.header
    /\ "max_x" \notin data_input.header
    /\ "min_x" \in data_input.header
    /\ fig_uu # None
    /\ stored_by.uu = 1 /\ attempt = 2

\* C4 (as stated; refuted): a header with the three required columns that
\* lacks some of the four optional columns is not an error, and the click
\* produces both charts, for every model selection.  Stated for tables
\* of at least one row whose equation cells are strings with well-formed
\* coefficients.
C4_OptionalColumnsOptional ==
    (/\ clicked
     /\ RowIds # {}
     /\ RequiredSet \subseteq data_input.header
     /\ data_input.header # AllCols
     /\ NoEmptyEquation /\ NoParserRaises)
    => /\ message = <<>>
       /\ stored_by.uu = attempt
       /\ stored_by.ncpa = attempt

\* C5 (as stated; refuted): on every string cell a parser returns a
\* coefficient pair or (None, None) and does not raise; a cell of the
\* equation shape whose coefficient token is no signed decimal gives
\* (None, None).
C5_ParsersNeverRaise ==
    (parse_call.fn \in {"parse_log_equation", "parse_linear_equation"}
     /\ parse_call.eq_str # <<>>)
    => /\ parse_call.result.raised = ""
       /\ (parse_call.result.a = None) <=> (parse_call.result.b = None)
       /\ \A term \in {LnX, X} :
             LET m == ReSearch(parse_call.eq_str, term)
             IN  (m # <<>> /\ ~(IsFloatLiteral(m[1]) /\ IsFloatLiteral(m[2])))
                 => parse_call.result.a = None

\* C6 (as stated; refuted): after a click that did not fail, a row whose
\* xMin or xMax is missing has no series on either chart.
C6_MissingRangeRowContributesNothing ==
    Succeeded
    => \A i \in RowIds :
          (~IsNum(XMin(i)) \/ ~IsNum(XMax(i)))
          => \A t \in ChartTraces : t.row # i

\* C7: on the cost chart, for every segment with a parsed log curve (a, b):
\* the start is max(x*, xMin) when find_ncpa_minimum_log gives x*, which it
\* never does for a <= 0, and xMin otherwise; when start < xMax there is
\* exactly one Observed series of the log model and it spans
\* [start, xMax]; otherwise the segment has no series of the log model at
\* all, and the click does not fail for it.
C7_CostLogDomain ==
    (Succeeded /\ graph_type \in {"log", "both"})
    => \A i \in RowIds :
          LET p == parse_log_equation(LogCell(i))
              xs == find_ncpa_minimum_log(p.a[1], p.b[1])
              start == IF xs = None THEN XMin(i)
                       ELSE IF Gt(XMin(i), xs) THEN XMin(i) ELSE xs
              logs == {t \in TracesOf(fig_ncpa) : t.row = i /\ t.model = "log"}
              observed == {t \in logs : t.region = "Observed"}
          IN  p.a # None
              => /\ p.a[1] <= 0 => xs = None
                 /\ IF Lt(start, XMax(i))
                    THEN /\ Cardinality(observed) = 1
                         /\ \A t \in observed :
                               t.x.start = start /\ t.x.stop = XMax(i)
                    ELSE logs = {}

\* C7 witness: one chart with a segment whose Observed series starts at
\* x* (inside its range) and a segment with x* >= xMax that has no series
\* of the log model.
C7_Witness ==
    /\ Succeeded /\ graph_type = "log"
    /\ \E i \in RowIds, j \in RowIds :
          LET pi == parse_log_equation(LogCell(i))
              pj == parse_log_equation(LogCell(j))
              xi == find_ncpa_minimum_log(pi.a[1], pi.b[1])
              xj == find_ncpa_minimum_log(pj.a[1], pj.b[1])
          IN  /\ pi.a # None /\ pj.a # None
              /\ xi # None /\ Lt(XMin(i), xi) /\ Lt(xi, XMax(i))
              /\ \E t \in TracesOf(fig_ncpa) :
                    t.row = i /\ t.region = "Observed" /\ t.x.start = xi
              /\ xj # None /\ ~Lt(xj, XMax(j)) /\ IsNum(XMax(j))
              /\ \A t \in TracesOf(fig_ncpa) : t.row # j

\* C8 (as stated; refuted): in every series of both charts the x values
\* are strictly increasing, rows with xMax <= xMin included.  Stated for
\* tables whose range cells are all numbers.
C8_XStrictlyIncreasing ==
    RangesNumeric
    => \A t \in ChartTraces :
          \A k \in 1..(t.x.num - 1) :
              Lt(Linspace(t.x)[k], Linspace(t.x)[k + 1])

\* C9 (as stated; refuted): with the log model selected, a row with
\* xMin <= 0 and a parsed log equation has no series of the log model on
\* either chart and the click reports an error for it.  Stated for tables
\* in which no parser raises.
C9_NonPositiveXMinLogRejected ==
    (clicked /\ graph_type \in {"log", "both"} /\ NoParserRaises)
    => \A i \in RowIds :
          (/\ IsNum(XMin(i)) /\ XMin(i)[1] <= 0
           /\ parse_log_equation(LogCell(i)).a # None)
          => /\ \A t \in ChartTraces : ~(t.row = i /\ t.model = "log")
             /\ message # <<>>

\* One step of a session, for C10.
C10_Step ==
    /\ (fig_uu' = None) <=> (fig_ncpa' = None)
    /\ stored_by'.uu = stored_by'.ncpa
    /\ (attempt' = attempt + 1 /\ message' # <<>>)
          => UNCHANGED <<fig_uu, fig_ncpa, graph_generated, brand_count,
                         stored_by>>
    /\ (attempt' = attempt + 1 /\ message' = <<>>)
          => /\ stored_by'.uu = attempt'
             /\ fig_uu' # None
             /\ graph_generated'
             /\ brand_count' = Len(data_input'.rows)
    /\ attempt' = attempt
          => UNCHANGED <<fig_uu, fig_ncpa, graph_generated, brand_count,
                         stored_by>>

\* C10: the retained charts are both absent or both assigned by the same
\* click, the most recent one that did not fail; a click that fails
\* (missing required column or exception) leaves fig_uu, fig_ncpa,
\* graph_generated and brand_count unchanged, and so does a download.
C10_RetainedChartsConsistent == [][C10_Step]_vars

\* C10 witness: a click that failed after a click that succeeded, the
\* charts of the first still retained.
C10_Witness ==
    /\ attempt = 2 /\ clicked /\ message # <<>>
    /\ message[1].kind = "exception"
    /\ fig_uu # None /\ fig_ncpa # None
    /\ stored_by = [uu |-> 1, ncpa |-> 1]

====
